---- MODULE Spec2Model ----
(***************************************************************************)
(* Hash_It: a server-rendered blog (express + passport + mongoose).        *)
(*                                                                         *)
(* Two iterations of the same application are modelled:                    *)
(*   "index"     src/index.js          (cloud images, author-checked       *)
(*                                      delete, like without a null check) *)
(*   "part_000"  src/unnamed/part_000  (local images, unguarded delete,    *)
(*                                      like with a null check)            *)
(*                                                                         *)
(* Every request handler is an async function: between two awaits other    *)
(* requests run.  A handler is therefore a sequence of atomic steps, one   *)
(* per access to the shared stores (users, sessions, posts, comments);     *)
(* the computation a handler does on its own copy of a document between    *)
(* two awaits is part of the step that precedes it.  The session guard     *)
(* (passport.session + ensureAuthenticated) reads only the session, which  *)
(* no post/comment handler writes, so it is taken together with the        *)
(* handler's first store access.                                           *)
(*                                                                         *)
(* post.save() is mongoose's: it sends the changes recorded on the         *)
(* document, not the document.  likes.push(x)/comments.push(x) are sent as *)
(* $push (with $inc __v), likes.splice(i, 1) as $set of the whole array    *)
(* under the condition that __v is still the version that was read (and    *)
(* $inc __v); a save that matches no document fails and the handler's      *)
(* catch answers 500.                                                      *)
(***************************************************************************)
EXTENDS Integers, Sequences, FiniteSets, Bags, TLC

\* ---------------------------------------------------------------- bounds
MaxPosts    == 1      \* posts ever created
MaxComments == 2      \* comments ever created
MaxSaves    == 4      \* saves of posts: cap of the sum of their __v
MaxInFlight == 2      \* requests suspended at an await at the same time
MaxUsers    == 2      \* user documents ever created
MaxTwinSaves    == 3  \* MaxSaves, of the two post stores side by side
MaxTwinComments == 1  \* MaxComments, of the two post stores side by side

\* ---------------------------------------------------------------- inputs
Variants  == {"index", "part_000"}
Usernames == {"alice", "bob"}
Passwords == {"pw1", "pw2"}
Sessions  == {"s1", "s2"}          \* browser sessions (cookies)
PostIds   == 1..MaxPosts           \* the :id of a request
NoUser    == 0

VARIABLES
  variant,     \* which iteration of the application is running
  users,       \* credential store: sequence of [username, password]; _id = index
  sessions,    \* session store: session -> passport user id, NoUser when none
  posts,       \* post store: sequence of post documents; _id = index
  comments,    \* comment store: sequence of [author, post]; _id = index
  inflight,    \* bag of requests suspended at an await
  last,        \* the response sent by the latest step (route "none": no response)
  pair,        \* history: the progress of two like toggles in succession
  shadow,      \* the post store had the tracked like request not run
  twins,       \* requests suspended at an await, in both post stores
  tracked      \* history: the tracked like request

twinVars == <<shadow, twins, tracked>>
vars == <<variant, users, sessions, posts, comments, inflight, last, pair,
          shadow, twins, tracked>>

\* ------------------------------------------------------- documents, stores

\* A post that was deleted (or never existed): what findById answers as null.
NullPost == [exists |-> FALSE, author |-> NoUser, likes |-> <<>>, comments |-> <<>>, v |-> 0]

NewPost(author) ==
  [exists |-> TRUE, author |-> author, likes |-> <<>>, comments |-> <<>>, v |-> 0]

\* Post.findById(id): the document, or null.
FindById(ps, p) == IF p \in 1..Len(ps) /\ ps[p].exists THEN ps[p] ELSE NullPost

\* The sum of the versions (__v) of the posts: the saves they have taken.
RECURSIVE SavesFrom(_, _)
SavesFrom(ps, n) == IF n = 0 THEN 0 ELSE ps[n].v + SavesFrom(ps, n - 1)

Saves(ps) == SavesFrom(ps, Len(ps))

\* Post.findByIdAndDelete(id).
FindByIdAndDelete(ps, p) ==
  IF p \in 1..Len(ps) THEN [ps EXCEPT ![p] = NullPost] ELSE ps

\* Post.find().sort({createdAt: -1}): existing posts, newest first.
RECURSIVE PostFind(_, _)
PostFind(ps, n) ==
  IF n = 0 THEN <<>>
  ELSE IF ps[n].exists THEN <<n>> \o PostFind(ps, n - 1) ELSE PostFind(ps, n - 1)

\* User.findOne({username}): the _id of the first user of that name, NoUser if none.
FindOne(us, name) ==
  IF \E i \in 1..Len(us) : us[i].username = name
  THEN CHOOSE i \in 1..Len(us) :
         /\ us[i].username = name
         /\ \A j \in 1..Len(us) : us[j].username = name => i <= j
  ELSE NoUser

\* The User schema's pre-save hook: the password is stored hashed.
Hash(pw) == <<"bcrypt", pw>>

\* user.comparePassword(candidate).
ComparePassword(user, candidate) == user.password = Hash(candidate)

\* user.save() of a new user under the schema's unique username index: the
\* store with the user added, or the store unchanged with a duplicate-key error.
UserSave(us, name, pw) ==
  IF \E i \in 1..Len(us) : us[i].username = name
  THEN [ok |-> FALSE, users |-> us]
  ELSE [ok |-> TRUE,
        users |-> Append(us, [username |-> name, password |-> Hash(pw)])]

\* ---------------------------------------------------- likes: local steps

\* likes.findIndex(id => id.equals(userId)): 0-based, -1 when absent.
RECURSIVE FindIndexFrom(_, _, _)
FindIndexFrom(likes, u, i) ==
  IF i >= Len(likes) THEN -1
  ELSE IF likes[i + 1] = u THEN i
  ELSE FindIndexFrom(likes, u, i + 1)

FindIndex(likes, u) == FindIndexFrom(likes, u, 0)

\* likes.splice(index, 1) at a 0-based index.
Splice1(likes, index) ==
  SubSeq(likes, 1, index) \o SubSeq(likes, index + 2, Len(likes))

\* The change the like handler records on its copy of the post: what save()
\* will send.  push -> $push of the user (no version condition); splice ->
\* $set of the array as spliced, conditional on the version read.
LikeDelta(post, u) ==
  LET index == FindIndex(post.likes, u) IN
  IF index = -1
  THEN [op |-> "$push", likes |-> <<u>>, v |-> -1]
  ELSE [op |-> "$set", likes |-> Splice1(post.likes, index), v |-> post.v]

\* Mutant of SaveLikes: the spliced array is written whatever the version.
SaveLikes_Unversioned(ps, p, delta) ==
  IF ~FindById(ps, p).exists THEN [ok |-> FALSE, posts |-> ps]
  ELSE IF delta.op = "$push"
  THEN [ok |-> TRUE,
        posts |-> [ps EXCEPT ![p].likes = @ \o delta.likes, ![p].v = @ + 1]]
  ELSE [ok |-> TRUE,
        posts |-> [ps EXCEPT ![p].likes = delta.likes, ![p].v = @ + 1]]

\* post.save() after the like handler's change.
SaveLikes(ps, p, delta) ==
  IF ~FindById(ps, p).exists THEN [ok |-> FALSE, posts |-> ps]
  ELSE IF delta.op = "$push"
  THEN [ok |-> TRUE,
        posts |-> [ps EXCEPT ![p].likes = @ \o delta.likes, ![p].v = @ + 1]]
  ELSE IF ps[p].v = delta.v
  THEN [ok |-> TRUE,
        posts |-> [ps EXCEPT ![p].likes = delta.likes, ![p].v = @ + 1]]
  ELSE [ok |-> FALSE, posts |-> ps]

\* Mutant of SaveComments: comments.unshift in place of comments.push.
SaveComments_Unshift(ps, p, cid) ==
  IF ~FindById(ps, p).exists THEN [ok |-> FALSE, posts |-> ps]
  ELSE [ok |-> TRUE,
        posts |-> [ps EXCEPT ![p].comments = <<cid>> \o @, ![p].v = @ + 1]]

\* post.save() after comments.push(comment._id).
SaveComments(ps, p, cid) ==
  IF ~FindById(ps, p).exists THEN [ok |-> FALSE, posts |-> ps]
  ELSE [ok |-> TRUE,
        posts |-> [ps EXCEPT ![p].comments = Append(@, cid), ![p].v = @ + 1]]

\* ------------------------------------------------- requests and responses

NoResponse == [route |-> "none", status |-> 0, to |-> "", flash |-> ""]

Response(route, status, to, flash) ==
  [route |-> route, status |-> status, to |-> to, flash |-> flash]

Redirect(route, to) == Response(route, 302, to, "")

NoDelta == [op |-> "", likes |-> <<>>, v |-> -1]

\* A request suspended at an await: where it is, and what it holds that it
\* still uses (req.session for a login, req.user and req.params.id for the
\* post routes, req.body for a signup, the change recorded on its document).
Request(at, s, u, p, name, pw, delta, cid) ==
  [at |-> at, sess |-> s, user |-> u, post |-> p,
   name |-> name, pw |-> pw, delta |-> delta, cid |-> cid]

Suspend(r) == inflight' = inflight (+) SetToBag({r})
Resume(r)  == inflight' = inflight (-) SetToBag({r})
Room       == BagCardinality(inflight) < MaxInFlight

\* req.user as passport.session leaves it; req.isAuthenticated().
ReqUser(s)         == sessions[s]
IsAuthenticated(s) == sessions[s] # NoUser

\* ------------------------------------------- history of two toggles in a row

NoPair == [n |-> 0, user |-> NoUser, post |-> 0, likes |-> <<>>]

\* The like requests this step suspended at their save.
LikeAdmitted ==
  {r \in BagToSet(inflight') :
     r.at = "like_save" /\ CopiesIn(r, inflight') > CopiesIn(r, inflight)}

\* n = 1: a like toggle started with nothing else in flight, n = 2: it has
\* answered, n = 3: the same user's next toggle of the same post started
\* right after, n = 4: that one has answered too.  Any other step ends it.
PairNext ==
  IF LikeAdmitted # {}
  THEN LET r == CHOOSE r \in LikeAdmitted : TRUE IN
       IF inflight # EmptyBag THEN NoPair
       ELSE IF pair.n = 2 /\ pair.user = r.user /\ pair.post = r.post
       THEN [pair EXCEPT !.n = 3]
       ELSE [n |-> 1, user |-> r.user, post |-> r.post, likes |-> posts[r.post].likes]
  ELSE IF /\ last'.route = "like"
          /\ BagCardinality(inflight') < BagCardinality(inflight)
          /\ pair.n \in {1, 3}
  THEN [pair EXCEPT !.n = @ + 1]
  ELSE NoPair

Watch == pair' = PairNext

\* ----------------------------------------------------------- initial states

\* A fresh deployment: empty stores.
Init ==
  /\ variant \in Variants
  /\ users = <<>>
  /\ sessions = [s \in Sessions |-> NoUser]
  /\ posts = <<>>
  /\ comments = <<>>
  /\ inflight = EmptyBag
  /\ last = NoResponse
  /\ pair = NoPair
  /\ shadow = <<>>
  /\ twins = EmptyBag
  /\ tracked = NoPair

\* alice and bob have signed up, each from a browser of their own.
SignedUp ==
  /\ users = <<[username |-> "alice", password |-> Hash("pw1")],
               [username |-> "bob", password |-> Hash("pw2")]>>
  /\ sessions = [s \in Sessions |-> IF s = "s1" THEN 1 ELSE 2]

InitSignedUp ==
  /\ variant \in Variants
  /\ SignedUp
  /\ posts = <<>>
  /\ comments = <<>>
  /\ inflight = EmptyBag
  /\ last = NoResponse
  /\ pair = NoPair
  /\ shadow = <<>>
  /\ twins = EmptyBag
  /\ tracked = NoPair

\* ---------------------------------------------------------------- signup

\* Mutant of SignupFind: no look-up of the username before the save.
SignupFind_NoLookup(s, name, pw) ==
  /\ Room
  /\ Suspend(Request("signup_save", s, NoUser, 0, name, pw, NoDelta, 0))
  /\ last' = NoResponse
  /\ UNCHANGED <<variant, users, sessions, posts, comments, twinVars>>
  /\ Watch

\* POST /signup up to the await of user.save().
SignupFind(s, name, pw) ==
  /\ IF FindOne(users, name) # NoUser
     THEN /\ last' = Response("signup", 302, "/signup", "Username already exists.")
          /\ UNCHANGED inflight
     ELSE /\ Room
          /\ Suspend(Request("signup_save", s, NoUser, 0, name, pw, NoDelta, 0))
          /\ last' = NoResponse
  /\ UNCHANGED <<variant, users, sessions, posts, comments, twinVars>>
  /\ Watch

\* user.save(), then req.login(user) and the redirect; a save that throws is
\* caught: flash and redirect to /signup.
SignupSave(r) ==
  /\ r.at = "signup_save"
  /\ Resume(r)
  /\ LET saved == UserSave(users, r.name, r.pw) IN
     IF saved.ok
     THEN /\ Len(users) < MaxUsers
          /\ users' = saved.users
          /\ sessions' = [sessions EXCEPT ![r.sess] = Len(saved.users)]
          /\ last' = Redirect("signup", "/posts")
     ELSE /\ last' = Response("signup", 302, "/signup",
                              IF variant = "index" THEN "Signup failed."
                              ELSE "Something went wrong.")
          /\ UNCHANGED <<users, sessions>>
  /\ UNCHANGED <<variant, posts, comments, twinVars>>
  /\ Watch

\* ----------------------------------------------------------------- login

\* Mutant of Verify: the password is not compared.
Verify_AnyPassword(us, name, pw) ==
  LET user == FindOne(us, name) IN
  IF user = NoUser
  THEN [user |-> NoUser,
        message |-> IF variant = "index" THEN "Invalid credentials"
                    ELSE "Incorrect username."]
  ELSE [user |-> user, message |-> ""]

\* The LocalStrategy verify callback: the user's _id and no message, or
\* NoUser (done(null, false, {message})) and the message.
Verify(us, name, pw) ==
  LET user == FindOne(us, name) IN
  IF variant = "index"
  THEN IF user = NoUser \/ ~ComparePassword(us[user], pw)
       THEN [user |-> NoUser, message |-> "Invalid credentials"]
       ELSE [user |-> user, message |-> ""]
  ELSE IF user = NoUser THEN [user |-> NoUser, message |-> "Incorrect username."]
  ELSE IF ~ComparePassword(us[user], pw)
  THEN [user |-> NoUser, message |-> "Incorrect password."]
  ELSE [user |-> user, message |-> ""]

\* POST /login: passport.authenticate("local") up to the session login; a
\* failure flashes the strategy's message and redirects to /login.
LoginVerify(s, name, pw) ==
  /\ LET verified == Verify(users, name, pw) IN
     IF verified.user = NoUser
     THEN /\ last' = Response("login", 302, "/login", verified.message)
          /\ UNCHANGED inflight
     ELSE /\ Room
          /\ Suspend(Request("login_establish", s, verified.user, 0, "", "", NoDelta, 0))
          /\ last' = NoResponse
  /\ UNCHANGED <<variant, users, sessions, posts, comments, twinVars>>
  /\ Watch

\* req.logIn(user) and the success redirect.
LoginEstablish(r) ==
  /\ r.at = "login_establish"
  /\ Resume(r)
  /\ sessions' = [sessions EXCEPT ![r.sess] = r.user]
  /\ last' = Redirect("login", "/posts")
  /\ UNCHANGED <<variant, users, posts, comments, twinVars>>
  /\ Watch

\* GET /logout: req.logout, then the redirect.
Logout(s) ==
  /\ sessions' = [sessions EXCEPT ![s] = NoUser]
  /\ last' = Redirect("logout", "/login")
  /\ UNCHANGED <<variant, users, posts, comments, inflight, twinVars>>
  /\ Watch

\* ----------------------------------------------------------- route guard

\* ensureAuthenticated answering an unauthenticated request.
ToLogin(route) ==
  /\ last' = Redirect(route, "/login")
  /\ UNCHANGED <<variant, users, sessions, posts, comments, inflight, twinVars>>
  /\ Watch

\* ----------------------------------------------------------------- posts

\* GET /posts.
ListPosts(s) ==
  IF ~IsAuthenticated(s) THEN ToLogin("list")
  ELSE /\ last' = Response("list", 200, "", "")
       /\ UNCHANGED <<variant, users, sessions, posts, comments, inflight, twinVars>>
       /\ Watch

\* GET /posts/new.
NewPostForm(s) ==
  IF ~IsAuthenticated(s) THEN ToLogin("new")
  ELSE /\ last' = Response("new", 200, "", "")
       /\ UNCHANGED <<variant, users, sessions, posts, comments, inflight, twinVars>>
       /\ Watch

\* POST /posts.  Title, caption, hash and image are stored as given and read
\* by no handler: they are left out of the document.
CreatePost(s) ==
  IF ~IsAuthenticated(s) THEN ToLogin("create")
  ELSE /\ Len(posts) < MaxPosts
       /\ posts' = Append(posts, NewPost(ReqUser(s)))
       /\ last' = Redirect("create", "/posts")
       /\ UNCHANGED <<variant, users, sessions, comments, inflight, twinVars>>
       /\ Watch

\* ------------------------------------------------------------------ like

\* What POST /posts/:id/like does up to the await of post.save(): the status
\* it answers at once with, or 0 and the change to save.
LikeRead(ps, p, u) ==
  LET post == FindById(ps, p) IN
  IF ~post.exists
  THEN \* part_000 checks !post; index reads post.likes of null and lands in
       \* its catch.
       [status |-> IF variant = "part_000" THEN 404 ELSE 500, delta |-> NoDelta]
  ELSE [status |-> 0, delta |-> LikeDelta(post, u)]

LikeFind(s, p) ==
  IF ~IsAuthenticated(s) THEN ToLogin("like")
  ELSE LET read == LikeRead(posts, p, ReqUser(s)) IN
       /\ IF read.status # 0
          THEN /\ last' = Response("like", read.status, "", "")
               /\ UNCHANGED inflight
          ELSE /\ Room
               /\ Suspend(Request("like_save", "", ReqUser(s), p, "", "", read.delta, 0))
               /\ last' = NoResponse
       /\ UNCHANGED <<variant, users, sessions, posts, comments, twinVars>>
       /\ Watch

\* await post.save() and the answer: the redirect, or the catch's 500.
LikeSave(r) ==
  /\ r.at = "like_save"
  /\ Saves(posts) < MaxSaves
  /\ Resume(r)
  /\ LET saved == SaveLikes(posts, r.post, r.delta) IN
     /\ posts' = saved.posts
     /\ last' = IF saved.ok THEN Redirect("like", "/posts")
                ELSE Response("like", 500, "", "")
  /\ UNCHANGED <<variant, users, sessions, comments, twinVars>>
  /\ Watch

\* --------------------------------------------------------------- comment

\* What POST /posts/:id/comments answers for a missing post.
CommentNotFound ==
  IF variant = "index" THEN Response("comment", 404, "", "")
  ELSE Response("comment", 302, "/posts", "Post not found.")

\* What it answers once the post is saved, or the save has thrown.
CommentAnswer(ok) ==
  IF ~ok THEN Response("comment", 500, "", "")
  ELSE IF variant = "index" THEN Redirect("comment", "/posts#id")
  ELSE Redirect("comment", "/posts")

\* POST /posts/:id/comments up to the await of comment.save().
CommentFind(s, p) ==
  IF ~IsAuthenticated(s) THEN ToLogin("comment")
  ELSE /\ IF ~FindById(posts, p).exists
          THEN /\ last' = CommentNotFound
               /\ UNCHANGED inflight
          ELSE /\ Room
               /\ Suspend(Request("comment_save", "", ReqUser(s), p, "", "", NoDelta, 0))
               /\ last' = NoResponse
       /\ UNCHANGED <<variant, users, sessions, posts, comments, twinVars>>
       /\ Watch

\* await comment.save(): the comment enters the comment store.  The content
\* is stored as given and read by no handler.
CommentSave(r) ==
  /\ r.at = "comment_save"
  /\ Len(comments) < MaxComments
  /\ comments' = Append(comments, [author |-> r.user, post |-> r.post])
  /\ inflight' = (inflight (-) SetToBag({r}))
                 (+) SetToBag({[r EXCEPT !.at = "comment_push",
                                         !.cid = Len(comments) + 1]})
  /\ last' = NoResponse
  /\ UNCHANGED <<variant, users, sessions, posts, twinVars>>
  /\ Watch

\* post.comments.push(comment._id); await post.save(); the answer.
CommentPush(r) ==
  /\ r.at = "comment_push"
  /\ Saves(posts) < MaxSaves
  /\ Resume(r)
  /\ LET saved == SaveComments(posts, r.post, r.cid) IN
     /\ posts' = saved.posts
     /\ last' = CommentAnswer(saved.ok)
  /\ UNCHANGED <<variant, users, sessions, comments, twinVars>>
  /\ Watch

\* ---------------------------------------------------------------- delete

\* Mutant of DeleteCheck: the author is not compared.
DeleteCheck_AnyUser(ps, p, u) ==
  LET post == FindById(ps, p) IN
  IF ~post.exists THEN 404 ELSE 0

\* index.js DELETE /posts/:id up to the await of findByIdAndDelete: the
\* status it answers at once with, or 0.
DeleteCheck(ps, p, u) ==
  LET post == FindById(ps, p) IN
  IF ~post.exists THEN 404
  ELSE IF post.author # u THEN 403
  ELSE 0

DeleteFind(s, p) ==
  /\ variant = "index"
  /\ IF ~IsAuthenticated(s) THEN ToLogin("delete")
     ELSE LET status == DeleteCheck(posts, p, ReqUser(s)) IN
          /\ IF status # 0
             THEN /\ last' = Response("delete", status, "", "")
                  /\ UNCHANGED inflight
             ELSE /\ Room
                  /\ Suspend(Request("delete_exec", "", ReqUser(s), p, "", "", NoDelta, 0))
                  /\ last' = NoResponse
          /\ UNCHANGED <<variant, users, sessions, posts, comments, twinVars>>
          /\ Watch

\* await Post.findByIdAndDelete(id) and the redirect.
DeleteExec(r) ==
  /\ r.at = "delete_exec"
  /\ Resume(r)
  /\ posts' = FindByIdAndDelete(posts, r.post)
  /\ last' = Redirect("delete", "/posts")
  /\ UNCHANGED <<variant, users, sessions, comments, twinVars>>
  /\ Watch

\* part_000 DELETE /posts/:id: no guard, no lookup.
DeleteUnguarded(s, p) ==
  /\ variant = "part_000"
  /\ posts' = FindByIdAndDelete(posts, p)
  /\ last' = Redirect("delete", "/posts")
  /\ UNCHANGED <<variant, users, sessions, comments, inflight, twinVars>>
  /\ Watch

\* -------------------------------------------------------- specifications

\* The post, comment and like routes and logout, with alice and bob signed up.
Next ==
  \/ \E s \in Sessions : Logout(s)
  \/ \E s \in Sessions : ListPosts(s)
  \/ \E s \in Sessions : NewPostForm(s)
  \/ \E s \in Sessions : CreatePost(s)
  \/ \E s \in Sessions, p \in PostIds : LikeFind(s, p)
  \/ \E r \in BagToSet(inflight) : LikeSave(r)
  \/ \E s \in Sessions, p \in PostIds : CommentFind(s, p)
  \/ \E r \in BagToSet(inflight) : CommentSave(r)
  \/ \E r \in BagToSet(inflight) : CommentPush(r)
  \/ \E s \in Sessions, p \in PostIds : DeleteFind(s, p)
  \/ \E r \in BagToSet(inflight) : DeleteExec(r)
  \/ \E s \in Sessions, p \in PostIds : DeleteUnguarded(s, p)

Spec == InitSignedUp /\ [][Next]_vars

\* The like, comment and delete routes on a post that is there: alice's,
\* which bob has liked.
InitPost ==
  /\ variant \in Variants
  /\ SignedUp
  /\ posts = <<[NewPost(1) EXCEPT !.likes = <<2>>, !.v = 1]>>
  /\ comments = <<>>
  /\ inflight = EmptyBag
  /\ last = NoResponse
  /\ pair = NoPair
  /\ shadow = <<>>
  /\ twins = EmptyBag
  /\ tracked = NoPair

NextPost ==
  \/ \E s \in Sessions, p \in PostIds : LikeFind(s, p)
  \/ \E r \in BagToSet(inflight) : LikeSave(r)
  \/ \E s \in Sessions, p \in PostIds : CommentFind(s, p)
  \/ \E r \in BagToSet(inflight) : CommentSave(r)
  \/ \E r \in BagToSet(inflight) : CommentPush(r)
  \/ \E s \in Sessions, p \in PostIds : DeleteFind(s, p)
  \/ \E r \in BagToSet(inflight) : DeleteExec(r)
  \/ \E s \in Sessions, p \in PostIds : DeleteUnguarded(s, p)

SpecPost == InitPost /\ [][NextPost]_vars

\* Signup and logout, from a fresh deployment.
NextSignup ==
  \/ \E s \in Sessions, name \in Usernames, pw \in Passwords : SignupFind(s, name, pw)
  \/ \E r \in BagToSet(inflight) : SignupSave(r)
  \/ \E s \in Sessions : Logout(s)

SpecSignup == Init /\ [][NextSignup]_vars

\* Login, logout and a guarded page, alice having signed up (and bob not).
InitLogin ==
  /\ variant \in Variants
  /\ users = <<[username |-> "alice", password |-> Hash("pw1")]>>
  /\ sessions = [s \in Sessions |-> IF s = "s1" THEN 1 ELSE NoUser]
  /\ posts = <<>>
  /\ comments = <<>>
  /\ inflight = EmptyBag
  /\ last = NoResponse
  /\ pair = NoPair
  /\ shadow = <<>>
  /\ twins = EmptyBag
  /\ tracked = NoPair

NextLogin ==
  \/ \E s \in Sessions, name \in Usernames, pw \in Passwords : LoginVerify(s, name, pw)
  \/ \E r \in BagToSet(inflight) : LoginEstablish(r)
  \/ \E s \in Sessions : Logout(s)
  \/ \E s \in Sessions : ListPosts(s)

SpecLogin == InitLogin /\ [][NextLogin]_vars

\* ------------------------------------------- a like request and its absence
\* The like and comment routes run on two post stores side by side: posts,
\* where every request runs, and shadow, where every request but the tracked
\* like request runs, in the same order.  Both start with one post of each
\* user; the requests are on TwinPost, the other post stands by.

TwinPost == 1

TwinRequest(at, u, p, delta, sdelta, cid, t) ==
  [at |-> at, user |-> u, post |-> p, delta |-> delta, sdelta |-> sdelta,
   cid |-> cid, tracked |-> t]

TwinRoom == BagCardinality(twins) < MaxInFlight

InitTwin ==
  /\ variant \in Variants
  /\ SignedUp
  /\ posts = <<NewPost(1), NewPost(2)>>
  /\ shadow = posts
  /\ comments = <<>>
  /\ inflight = EmptyBag
  /\ twins = EmptyBag
  /\ last = NoResponse
  /\ pair = NoPair
  /\ tracked = NoPair

\* POST /posts/:id/like up to the await of post.save(), as the tracked
\* request (t) or as another one.
TwinLikeFind(s, p, t) ==
  /\ IsAuthenticated(s)
  /\ FindById(posts, p).exists
  /\ t => tracked.n = 0
  /\ TwinRoom
  /\ twins' = twins (+) SetToBag({
       TwinRequest("like_save", ReqUser(s), p,
                   LikeRead(posts, p, ReqUser(s)).delta,
                   IF t THEN NoDelta ELSE LikeRead(shadow, p, ReqUser(s)).delta,
                   0, t)})
  /\ tracked' = IF t THEN [n |-> 1, user |-> ReqUser(s), post |-> p, likes |-> <<>>]
                ELSE tracked
  /\ last' = NoResponse
  /\ UNCHANGED <<variant, users, sessions, posts, comments, inflight, pair, shadow>>

\* await post.save() and the answer.
TwinLikeSave(r) ==
  /\ r.at = "like_save"
  /\ Saves(posts) < MaxTwinSaves
  /\ Saves(shadow) < MaxTwinSaves
  /\ twins' = twins (-) SetToBag({r})
  /\ LET saved == SaveLikes(posts, r.post, r.delta) IN
     /\ posts' = saved.posts
     /\ last' = IF saved.ok THEN Redirect("like", "/posts")
                ELSE Response("like", 500, "", "")
  /\ shadow' = IF r.tracked THEN shadow
               ELSE SaveLikes(shadow, r.post, r.sdelta).posts
  /\ tracked' = IF r.tracked THEN [tracked EXCEPT !.n = 2] ELSE tracked
  /\ UNCHANGED <<variant, users, sessions, comments, inflight, pair>>

\* POST /posts/:id/comments up to the await of comment.save().
TwinCommentFind(s, p) ==
  /\ IsAuthenticated(s)
  /\ FindById(posts, p).exists
  /\ TwinRoom
  /\ twins' = twins (+) SetToBag({
       TwinRequest("comment_save", ReqUser(s), p, NoDelta, NoDelta, 0, FALSE)})
  /\ last' = NoResponse
  /\ UNCHANGED <<variant, users, sessions, posts, comments, inflight, pair,
                 shadow, tracked>>

\* await comment.save().
TwinCommentSave(r) ==
  /\ r.at = "comment_save"
  /\ Len(comments) < MaxTwinComments
  /\ comments' = Append(comments, [author |-> r.user, post |-> r.post])
  /\ twins' = (twins (-) SetToBag({r}))
              (+) SetToBag({[r EXCEPT !.at = "comment_push",
                                      !.cid = Len(comments) + 1]})
  /\ last' = NoResponse
  /\ UNCHANGED <<variant, users, sessions, posts, inflight, pair, shadow, tracked>>

\* post.comments.push(comment._id); await post.save(); the answer.
TwinCommentPush(r) ==
  /\ r.at = "comment_push"
  /\ Saves(posts) < MaxTwinSaves
  /\ Saves(shadow) < MaxTwinSaves
  /\ twins' = twins (-) SetToBag({r})
  /\ LET saved == SaveComments(posts, r.post, r.cid) IN
     /\ posts' = saved.posts
     /\ last' = CommentAnswer(saved.ok)
  /\ shadow' = SaveComments(shadow, r.post, r.cid).posts
  /\ UNCHANGED <<variant, users, sessions, comments, inflight, pair, tracked>>

NextTwin ==
  \/ \E s \in Sessions, t \in BOOLEAN : TwinLikeFind(s, TwinPost, t)
  \/ \E r \in BagToSet(twins) : TwinLikeSave(r)
  \/ \E s \in Sessions : TwinCommentFind(s, TwinPost)
  \/ \E r \in BagToSet(twins) : TwinCommentSave(r)
  \/ \E r \in BagToSet(twins) : TwinCommentPush(r)

SpecTwin == InitTwin /\ [][NextTwin]_vars

\* ------------------------------------------------------------------ claims

Range(seq) == {seq[i] : i \in 1..Len(seq)}

NoDuplicates(seq) == \A i, j \in 1..Len(seq) : seq[i] = seq[j] => i = j

IsPrefix(a, b) == Len(a) <= Len(b) /\ SubSeq(b, 1, Len(a)) = a

Without(seq, u) == LET Other(x) == x # u IN SelectSeq(seq, Other)

\* A step in which the post and comment stores stay as they are.
StoresUnchanged == posts' = posts /\ comments' = comments

\* A step that answers an arriving request at once: nothing is suspended.
AnsweredAtOnce == inflight' = inflight /\ last'.route # "none"

\* A step that answers with the redirect to the login page.
RedirectedToLogin == last'.status = 302 /\ last'.to = "/login"

\* A step in which a request of session s arrives at one of the post,
\* comment and like routes.
GuardedRequest(s) ==
  \/ ListPosts(s)
  \/ NewPostForm(s)
  \/ CreatePost(s)
  \/ \E p \in PostIds : LikeFind(s, p)
  \/ \E p \in PostIds : CommentFind(s, p)
  \/ \E p \in PostIds : DeleteFind(s, p)
  \/ \E p \in PostIds : DeleteUnguarded(s, p)

\* C1: the like list of every post holds each user at most once, whatever
\* like requests ran and however they interleaved.
C1_LikesHoldEachUserOnce ==
  \A p \in 1..Len(posts) : NoDuplicates(posts[p].likes)

\* C2: once a user's two like toggles of a post have run in succession with
\* no other request in between, the post's like list has the length and the
\* members it had before the first.
C2_TwoTogglesRestore ==
  pair.n = 4 =>
    /\ Len(posts[pair.post].likes) = Len(pair.likes)
    /\ Range(posts[pair.post].likes) = Range(pair.likes)

\* C3: signups, however interleaved, leave at most one user per username and
\* every stored account as it is, so a credential that logged in still does;
\* a signup for a taken username is answered with the "already exists" flash
\* and the redirect to /signup and changes neither users nor sessions.
C3_SignupKeepsUsernamesUnique ==
  [][/\ \A i, j \in 1..Len(users') :
          users'[i].username = users'[j].username => i = j
     /\ \A i \in 1..Len(users) : i <= Len(users') /\ users'[i] = users[i]
     /\ \A i \in 1..Len(users), pw \in Passwords :
          Verify(users, users[i].username, pw).user = i
            => Verify(users', users[i].username, pw).user = i
     /\ \A s \in Sessions, name \in Usernames, pw \in Passwords :
          (FindOne(users, name) # NoUser /\ SignupFind(s, name, pw))
            => /\ AnsweredAtOnce
               /\ last' = Response("signup", 302, "/signup", "Username already exists.")
               /\ users' = users
               /\ sessions' = sessions]_vars

\* C3's case: two signups raced for one username, the second save was
\* refused, and the one account of that name is there.
C3_Witness ==
  /\ last.route = "signup"
  /\ last.flash \in {"Signup failed.", "Something went wrong."}
  /\ Len(users) = 1

\* C4: in index.js, a delete request on an existing post by an authenticated
\* user who is not its author is answered 403 at once and changes nothing:
\* the post is there with its author, likes and comments, and is listed.
C4_NonAuthorDeleteForbidden ==
  [][\A s \in Sessions, p \in PostIds :
       ( /\ variant = "index"
         /\ IsAuthenticated(s)
         /\ FindById(posts, p).exists
         /\ FindById(posts, p).author # ReqUser(s)
         /\ DeleteFind(s, p) )
       => /\ AnsweredAtOnce
          /\ last'.status = 403
          /\ StoresUnchanged
          /\ FindById(posts', p) = FindById(posts, p)
          /\ p \in Range(PostFind(posts', Len(posts')))]_vars

\* C4's case: bob's delete of alice's post has been answered 403, the post
\* having likes and a comment to lose.
C4_Witness ==
  /\ variant = "index"
  /\ last = Response("delete", 403, "", "")
  /\ \E p \in 1..Len(posts) :
       posts[p].exists /\ posts[p].likes # <<>> /\ posts[p].comments # <<>>

\* C5: a request without an authenticated session to any post, comment or
\* like route is redirected to /login and leaves the post and comment stores
\* as they are.
C5_GuardedRoutesNeedSession ==
  [][\A s \in Sessions :
       (~IsAuthenticated(s) /\ GuardedRequest(s))
       => RedirectedToLogin /\ StoresUnchanged]_vars

\* C6: a login request with a username that does not exist or a password
\* that does not match is answered at once with the redirect to /login and
\* the strategy's message as flash, and leaves every session as it was.
C6_BadLoginEstablishesNothing ==
  [][\A s \in Sessions, name \in Usernames, pw \in Passwords :
       ( /\ \/ FindOne(users, name) = NoUser
            \/ ~ComparePassword(users[FindOne(users, name)], pw)
         /\ LoginVerify(s, name, pw) )
       => /\ AnsweredAtOnce
          /\ RedirectedToLogin
          /\ last'.flash = IF variant = "index" THEN "Invalid credentials"
                           ELSE IF FindOne(users, name) = NoUser
                           THEN "Incorrect username."
                           ELSE "Incorrect password."
          /\ sessions' = sessions]_vars

\* C6's case: a login with a wrong password has been refused while one
\* session is logged in and another is not.
C6_Witness ==
  /\ last.route = "login"
  /\ last.to = "/login"
  /\ last.flash \in {"Invalid credentials", "Incorrect password."}
  /\ users # <<>>
  /\ \E s1, s2 \in Sessions : IsAuthenticated(s1) /\ ~IsAuthenticated(s2)

\* C7: a like request by an authenticated user on a post that is not in the
\* post store is answered 404 at once and changes nothing.
C7_LikeOfMissingPostNotFound ==
  [][\A s \in Sessions, p \in PostIds :
       (IsAuthenticated(s) /\ ~FindById(posts, p).exists /\ LikeFind(s, p))
       => AnsweredAtOnce /\ last'.status = 404 /\ StoresUnchanged]_vars

\* C8: while a post exists, every step leaves its comment list a prefix of
\* what it becomes, and every reference in the list names a comment of the
\* comment store that was made for this post.
C8_CommentsAppendOnly ==
  [][\A p \in 1..Len(posts') :
       /\ (p <= Len(posts) /\ posts[p].exists /\ posts'[p].exists)
            => IsPrefix(posts[p].comments, posts'[p].comments)
       /\ \A i \in 1..Len(posts'[p].comments) :
            /\ posts'[p].comments[i] \in 1..Len(comments')
            /\ comments'[posts'[p].comments[i]].post = p
       /\ NoDuplicates(posts'[p].comments)]_vars

\* C8's case: two add-comment requests and alice's like request on one post
\* have interleaved: the comment made second was appended first.
C8_Witness ==
  \E p \in 1..Len(posts) :
    /\ posts[p].exists
    /\ posts[p].comments = <<2, 1>>
    /\ posts[p].likes = <<2, 1>>

\* In Spec every session starts logged in and no route logs in: a session is
\* unauthenticated exactly from its logout on.
LoggedOut(s) == ~IsAuthenticated(s)

\* C9: logout leaves the session without identity; from then on, until a
\* login or signup on that session, every request of the session to a post,
\* comment or like route is redirected to /login and changes nothing.
C9_LogoutEndsAccess ==
  [][\A s \in Sessions :
       /\ Logout(s) => LoggedOut(s)'
       /\ (LoggedOut(s) /\ ~LoggedOut(s)') => last'.route \in {"login", "signup"}
       /\ (LoggedOut(s) /\ GuardedRequest(s))
            => RedirectedToLogin /\ StoresUnchanged /\ AnsweredAtOnce]_vars

\* C10: once the tracked like request of U on P has answered, every post has
\* the author and the comment list it has in the store where that request
\* did not run, P's like list has the same members other than U, and every
\* other post the same like list.
C10_AsIfNotRun ==
  tracked.n = 2 =>
    \A p \in 1..Len(posts) :
      /\ posts[p].exists = shadow[p].exists
      /\ posts[p].author = shadow[p].author
      /\ posts[p].comments = shadow[p].comments
      /\ IF p = tracked.post
         THEN Range(posts[p].likes) \ {tracked.user}
                = Range(shadow[p].likes) \ {tracked.user}
         ELSE posts[p].likes = shadow[p].likes

\* C10 as amended: the save of a like request of U on P leaves every other
\* user's entries in P's like list, P's author and comment list, and every
\* other post as they were right before the save.
C10_SaveWritesOnlyOwnEntry ==
  [][\A r \in BagToSet(twins) :
       TwinLikeSave(r)
       => /\ Len(posts') = Len(posts)
          /\ \A p \in 1..Len(posts) :
               IF p = r.post
               THEN /\ posts'[p].exists = posts[p].exists
                    /\ posts'[p].author = posts[p].author
                    /\ posts'[p].comments = posts[p].comments
                    /\ Without(posts'[p].likes, r.user) = Without(posts[p].likes, r.user)
               ELSE posts'[p] = posts[p]
          /\ comments' = comments]_vars

\* C10's case: the tracked request has answered while another user's like
\* request on the same post, which read the post before, has yet to save.
C10_Witness ==
  /\ tracked.n = 2
  /\ \E r \in BagToSet(twins) :
       r.at = "like_save" /\ r.user # tracked.user /\ r.post = tracked.post
                          /\ r.delta.op = "$set"

====
